---- MODULE Spec2Model ----
(***************************************************************************)
(* Model of snakemake_storage_plugin_rsync/__init__.py: the StorageObject  *)
(* of the rsync storage plugin.  The storage is a file tree reached with    *)
(* os.stat / pathlib through query_path; the inventory cache is the        *)
(* IOCacheStorageInterface handed to inventory(); transfers run rsync as   *)
(* an external process.                                                    *)
(***************************************************************************)
EXTENDS Integers, Sequences, FiniteSets, TLC

(***************************************************************************)
(* Bounds and constants                                                    *)
(***************************************************************************)

\* Attempts made by retry_decorator (imported at line 24; the interface
\* package builds it as retry(tries=3, delay=3, backoff=2)).
MaxTries == 3

\* How many times the storage side may be modified during one behaviour.
MaxChanges == 1

\* The queries (one StorageObject and one cache key each).
Keys == {"k1", "k2"}

\* How many characters a query handed to is_valid_query may have after
\* its leading word.
MaxSuffix == 3

\* The callers that may run inventory.
Workers == {"w1", "w2"}

\* Names bound in the module's global namespace: the imports of lines 1-30
\* and the two classes of lines 75 and 149.
ModuleNames ==
    {"os", "Path", "shutil", "subprocess", "dataclass", "field", "Any",
     "Iterable", "Optional", "List", "urlparse", "sysrsync",
     "StorageProviderSettingsBase", "StorageProviderBase",
     "StorageQueryValidationResult", "ExampleQuery", "Operation",
     "QueryType", "StorageObjectRead", "StorageObjectWrite",
     "StorageObjectGlob", "StorageObjectTouch", "retry_decorator",
     "IOCacheStorageInterface", "Mtime", "lutime", "StorageProvider",
     "StorageObject"}

(***************************************************************************)
(* The storage side.  An object at query_path has a kind, for a directory  *)
(* (or a link to one) the kind of its .snakemake_timestamp entry, and a    *)
(* version that stands for its content: every stat value carries the       *)
(* version it was read at and the inode it was read from.                  *)
(***************************************************************************)
Kinds == {"absent", "file", "dir", "linkfile", "linkdir", "dangling"}

Sentinels == {"none", "file", "link", "dangling"}

Shapes ==
    {s \in [kind : Kinds, sent : Sentinels] :
        s.sent # "none" => s.kind \in {"dir", "linkdir"}}

\* The shapes each path ranges over: k1 over all of them, k2 (the object
\* that only has to be another one) over a plain file or nothing.
ShapesOf(k) ==
    IF k = "k1" THEN Shapes ELSE {s \in Shapes : s.kind \in {"absent", "file"}}

NoVal == <<"none", 0>>

\* What a call gives back: a value, or an exception with its message.
Ok(v) == [status |-> "ok", exc |-> "none", msg |-> "", value |-> v]

Raise(e, m) == [status |-> "error", exc |-> e, msg |-> m, value |-> NoVal]

Err(e) == Raise(e, "errno")

\* An I/O error that goes away when the call is repeated (EIO, EAGAIN...).
Transient == Err("OSError")

\* os.stat(path, follow_symlinks=...)
OsStat(o, follow_symlinks) ==
    IF follow_symlinks
    THEN IF o.kind \in {"file", "dir", "linkfile", "linkdir"}
         THEN Ok([st_mtime |-> <<"target", o.ver>>, st_size |-> <<"tsize", o.ver>>])
         ELSE Err("FileNotFoundError")
    ELSE IF o.kind \in {"file", "dir"}
         THEN Ok([st_mtime |-> <<"target", o.ver>>, st_size |-> <<"tsize", o.ver>>])
         ELSE IF o.kind \in {"linkfile", "linkdir", "dangling"}
              THEN Ok([st_mtime |-> <<"link", o.ver>>, st_size |-> <<"lsize", o.ver>>])
              ELSE Err("FileNotFoundError")

\* Path.exists(): follows symlinks, a missing target counts as absent.
PathExists(o) == o.kind \in {"file", "dir", "linkfile", "linkdir"}

\* Path.is_symlink()
PathIsSymlink(o) == o.kind \in {"linkfile", "linkdir", "dangling"}

\* Path.is_dir(): follows symlinks.
PathIsDir(o) == o.kind \in {"dir", "linkdir"}

\* self._timestamp_path.exists(): follows symlinks.
TimestampExists(o) == PathIsDir(o) /\ o.sent \in {"file", "link"}

\* os.stat(timestamp, follow_symlinks=...).st_mtime
TimestampStat(o, follow_symlinks) ==
    IF ~PathIsDir(o) \/ o.sent = "none" THEN Err("FileNotFoundError")
    ELSE IF ~follow_symlinks \/ o.sent = "file" THEN Ok(<<"sentinel", o.ver>>)
    ELSE IF o.sent = "link" THEN Ok(<<"sentineltarget", o.ver>>)
    ELSE Err("FileNotFoundError")

(***************************************************************************)
(* The private helpers and the bodies of the decorated methods             *)
(***************************************************************************)

\* The probes of _stat_to_mtime, one of which may fail.
StatToMtimeFaults == {"none", "is_dir", "timestamp_exists", "timestamp_stat"}

\* StorageObject._stat
Stat(o, follow_symlinks) == OsStat(o, follow_symlinks)

\* StorageObject._stat_to_mtime
StatToMtime(o, stat, fault) ==
    IF fault = "is_dir" THEN Transient
    ELSE IF PathIsDir(o)
         THEN IF fault = "timestamp_exists" THEN Transient
              ELSE IF TimestampExists(o)
                   THEN IF fault = "timestamp_stat" THEN Transient
                        ELSE TimestampStat(o, FALSE)
                   ELSE Ok(stat.st_mtime)
         ELSE Ok(stat.st_mtime)

\* exists(), undecorated
ExistsBody(o) == Ok(PathExists(o))

\* MtimeBody with the stat of line 218 following symlinks.
MtimeBodyFollowing(o) ==
    LET st == OsStat(o, TRUE)
    IN  IF st.status = "ok" THEN StatToMtime(o, st.value, "none") ELSE st

\* mtime(), undecorated
MtimeBody(o) ==
    LET st == Stat(o, FALSE)
    IN  IF st.status = "ok" THEN StatToMtime(o, st.value, "none") ELSE st

\* size(), undecorated
SizeBody(o) ==
    LET st == Stat(o, TRUE)
    IN  IF st.status = "ok" THEN Ok(st.value.st_size) ELSE st

\* What WorkflowError(...) at line 262 evaluates to: the callee name is
\* looked up in the module's globals before the argument is decoded.
RaiseWorkflowError(output) ==
    IF "WorkflowError" \in ModuleNames
    THEN Raise("WorkflowError", output)
    ELSE Raise("NameError", "name 'WorkflowError' is not defined")

\* RunCmd without check=True: the exit status is ignored.
RunCmdUnchecked(exitcode, output) == Ok(NoVal)

\* StorageObject._run_cmd: subprocess.run(check=True) with stdout and
\* stderr captured together.
RunCmd(exitcode, output) ==
    IF exitcode = 0 THEN Ok(NoVal) ELSE RaiseWorkflowError(output)

\* retrieve_object(), undecorated, given how the rsync process ends.
RetrieveBody(exitcode, output) == RunCmd(exitcode, output)

\* store_object(), undecorated: the body is "...".
StoreBody(o) == Ok(NoVal)

\* remove(), undecorated: the body is "...".
RemoveBody(o) == Ok(NoVal)

\* The entries rglob("*") finds beneath a directory.
Entries(k, o) ==
    IF PathIsDir(o) /\ o.sent # "none"
    THEN {[type |-> "str", path |-> <<k, ".snakemake_timestamp">>]}
    ELSE {}

\* list_candidate_matches(), undecorated.  The prefix is built from
\* self.query, scheme included, which names no path of the storage.
ListBody(k, o) ==
    IF "get_constant_prefix" \notin ModuleNames
    THEN Raise("NameError", "name 'get_constant_prefix' is not defined")
    ELSE Ok({[type |-> "Path", path |-> <<"rsync:", k>>]})

(***************************************************************************)
(* retry_decorator: up to MaxTries attempts, the last exception is raised. *)
(* The first `fails` attempts end in `failure`, the later ones in          *)
(* `outcome`.                                                              *)
(***************************************************************************)
Attempt(n, fails, failure, outcome) == IF n <= fails THEN failure ELSE outcome

RECURSIVE Retry(_, _, _, _)
Retry(n, fails, failure, outcome) ==
    LET r == Attempt(n, fails, failure, outcome)
    IN  IF r.status = "ok" \/ n >= MaxTries THEN r
        ELSE Retry(n + 1, fails, failure, outcome)

\* The attempt at which retry_decorator stops.
RECURSIVE RetryAttempts(_, _, _, _)
RetryAttempts(n, fails, failure, outcome) ==
    IF Attempt(n, fails, failure, outcome).status = "ok" \/ n >= MaxTries THEN n
    ELSE RetryAttempts(n + 1, fails, failure, outcome)

\* The decorated methods (lines 210-251 and 267-278).
exists(o, fails) == Retry(1, fails, Transient, ExistsBody(o))

\* mtime without @retry_decorator.
mtimeUndecorated(o, fails) == Attempt(1, fails, Transient, MtimeBody(o))

mtime(o, fails) == Retry(1, fails, Transient, MtimeBody(o))

size(o, fails) == Retry(1, fails, Transient, SizeBody(o))

retrieve_object(fails, last, output) ==
    Retry(1, fails, RetrieveBody(23, output), RetrieveBody(last, output))

store_object(o) == Retry(1, 0, Transient, StoreBody(o))

remove(o) == Retry(1, 0, Transient, RemoveBody(o))

list_candidate_matches(k, o) == Retry(1, 0, Transient, ListBody(k, o))

(***************************************************************************)
(* StorageProvider.is_valid_query.  A query is a sequence of characters;   *)
(* "{sample}" stands for a wildcard placeholder, whose characters are no   *)
(* scheme characters and no delimiters.                                    *)
(***************************************************************************)

\* The characters a query may continue with after its leading word.
QueryChars == {":", "/", "[", "]", "{sample}", "a"}

\* The words a query may begin with.
QueryWords ==
    {<<>>,
     <<"r", "s", "y", "n", "c">>,
     <<"R", "s", "y", "n", "c">>,
     <<"r", "s", "y", "n">>,
     <<"r", "s", "y", "n", "c", "s">>,
     <<"r", "s", "y", "n", "c", "+", "s", "s", "h">>,
     <<"h", "t", "t", "p">>,
     <<"r", "s", "y", "n", "c", ":", "/", "/", "h">>,
     <<"h", "t", "t", "p", ":", "/", "/", "h">>}

Queries ==
    {w \o t : w \in QueryWords,
              t \in UNION {[1..n -> QueryChars] : n \in 0..MaxSuffix}}

Letters == {"r", "s", "y", "n", "c", "h", "t", "p", "a", "R"}

\* urllib.parse.scheme_chars: letters, digits and "+-."
SchemeChars == Letters \cup {"+", "-", "."}

\* str.lower() of one character
Lower(c) == IF c = "R" THEN "r" ELSE c

\* str.find(c) from position `from`, counted from 1; 0 when absent
Find(q, c, from) ==
    IF \E i \in from..Len(q) : q[i] = c
    THEN CHOOSE i \in from..Len(q) : q[i] = c /\ \A j \in from..(i - 1) : q[j] # c
    ELSE 0

Contains(q, c) == \E i \in 1..Len(q) : q[i] = c

\* urlparse(query) at line 124, as urllib.parse.urlsplit computes it: the
\* scheme is what precedes the first ":" if it starts with a letter and
\* holds scheme characters only, lower-cased; what follows "//" up to the
\* next "/" is the authority; an authority with one bracket but not the
\* other raises ValueError.  Whether a bracketed host that is no IP
\* literal is rejected depends on the library version (`rejects`).
UrlParse(q, rejects) ==
    LET i == Find(q, ":", 1)
        hasScheme == /\ i > 1
                     /\ q[1] \in Letters
                     /\ \A j \in 1..(i - 1) : q[j] \in SchemeChars
        scheme == IF hasScheme THEN [j \in 1..(i - 1) |-> Lower(q[j])] ELSE <<>>
        url == IF hasScheme THEN SubSeq(q, i + 1, Len(q)) ELSE q
        hasNetloc == Len(url) >= 2 /\ url[1] = "/" /\ url[2] = "/"
        slash == Find(url, "/", 3)
        end == IF slash = 0 THEN Len(url) + 1 ELSE slash
        netloc == IF hasNetloc THEN SubSeq(url, 3, end - 1) ELSE <<>>
        path == IF hasNetloc THEN SubSeq(url, end, Len(url)) ELSE url
    IN  IF Contains(netloc, "[") # Contains(netloc, "]")
        THEN Raise("ValueError", "Invalid IPv6 URL")
        ELSE IF Contains(netloc, "[") /\ rejects
             THEN Raise("ValueError", "does not appear to be an IPv4 or IPv6 address")
             ELSE Ok([scheme |-> scheme, netloc |-> netloc, path |-> path])

\* StorageQueryValidationResult(query, valid, reason)
ValidationResult(q, valid, reason, at) ==
    [query |-> q, valid |-> valid, reason |-> reason, at |-> at]

\* is_valid_query with the scheme tested by str.startswith.
IsValidQueryPrefix(q, rejects) ==
    LET parsed == UrlParse(q, rejects)
    IN  IF parsed.status # "ok"
        THEN ValidationResult(q, FALSE,
                 "cannot be parsed as URL (" \o parsed.msg \o ")", "except")
        ELSE IF ~(/\ Len(parsed.value.scheme) >= 5
                  /\ SubSeq(parsed.value.scheme, 1, 5) = <<"r", "s", "y", "n", "c">>)
             THEN ValidationResult(q, FALSE, "scheme must be rsync", "scheme")
             ELSE ValidationResult(q, TRUE, "None", "valid")

\* StorageProvider.is_valid_query, lines 117-140
is_valid_query(q, rejects) ==
    LET parsed == UrlParse(q, rejects)
    IN  IF parsed.status # "ok"
        THEN ValidationResult(q, FALSE,
                 "cannot be parsed as URL (" \o parsed.msg \o ")", "except")
        ELSE IF ~(parsed.value.scheme = <<"r", "s", "y", "n", "c">>)
             THEN ValidationResult(q, FALSE, "scheme must be rsync", "scheme")
             ELSE ValidationResult(q, TRUE, "None", "valid")

(***************************************************************************)
(* State                                                                   *)
(***************************************************************************)
VARIABLES
    remote,     \* the storage side: what is at each query_path
    changes,    \* how often the storage side was modified
    local,      \* what is at each object's local_path()
    cache,      \* the IOCacheStorageInterface handed to inventory
    inv,        \* each caller's position in inventory() and its locals
    query,      \* the query handed to is_valid_query
    ret         \* the call that has just returned, and how

vars == <<remote, changes, local, cache, inv, query, ret>>

NoStat == [st_mtime |-> NoVal, st_size |-> NoVal]

\* A caller outside inventory().
Idle ==
    [pc |-> "idle", key |-> "k1", stat |-> NoStat, lstat |-> NoStat,
     mt |-> NoVal, probes |-> 0, wrote |-> {}, changed |-> FALSE,
     raced |-> FALSE]

\* No call has just returned.
NoRet ==
    [op |-> "none", key |-> "k1", status |-> "ok", exc |-> "none", msg |-> "",
     value |-> NoVal, output |-> "", fails |-> 0, at |-> "none", probes |-> 0, wrote |-> {},
     changed |-> FALSE, raced |-> FALSE, query |-> <<>>, valid |-> FALSE]

\* The return of a decorated method.
Returned(op, k, r, fails) ==
    [NoRet EXCEPT !.op = op, !.key = k, !.status = r.status, !.exc = r.exc,
                  !.msg = r.msg, !.value = r.value, !.fails = fails]

\* The return of inventory() by caller state c, normal or by the exception
\* r raised at `at`.
InvReturned(c, r, at, fails) ==
    [NoRet EXCEPT !.op = "inventory", !.key = c.key, !.status = r.status,
                  !.exc = r.exc, !.msg = r.msg, !.fails = fails, !.at = at,
                  !.probes = c.probes, !.wrote = c.wrote,
                  !.changed = c.changed, !.raced = c.raced]

EmptyCache ==
    [exists_in_storage |-> [k \in Keys |-> "unset"],
     mtime |-> [k \in Keys |-> NoVal],
     size |-> [k \in Keys |-> NoVal]]

InitStorage ==
    /\ remote \in {f \in [Keys -> [kind : Kinds, sent : Sentinels, ver : {0}]] :
                     \A k \in Keys : [kind |-> f[k].kind, sent |-> f[k].sent] \in ShapesOf(k)}
    /\ changes = 0
    /\ local = [k \in Keys |-> "absent"]
    /\ cache = EmptyCache
    /\ inv = [w \in Workers |-> Idle]
    /\ ret = NoRet

\* No query is being validated.
Init == InitStorage /\ query = <<>>

\* Any query may be handed to is_valid_query.
InitQuery == InitStorage /\ query \in Queries

(***************************************************************************)
(* inventory(), lines 167-188, one step per probe and per cache write      *)
(***************************************************************************)

\* Another caller is inside inventory() for key k (past line 175).
Overlaps(w, k) ==
    \E x \in Workers \ {w} : inv[x].pc # "idle" /\ inv[x].key = k

\* The locals of c, noting whether the call has run beside another one
\* for the same key.
Raced(w, c) == [c EXCEPT !.raced = @ \/ Overlaps(w, c.key)]

\* Leave inventory(): the caller is idle again and ret tells how it ended.
InvLeave(w, c, r, at, fails) ==
    /\ inv' = [inv EXCEPT ![w] = Idle]
    /\ ret' = InvReturned(Raced(w, c), r, at, fails)

\* Go on to the step `pc` with the locals of c.
InvGoto(w, c, pc) ==
    /\ inv' = [inv EXCEPT ![w] = [Raced(w, c) EXCEPT !.pc = pc]]
    /\ ret' = NoRet

\* InvBegin without the test of line 174.
InvBeginNoShortCircuit(w, k) ==
    /\ inv[w].pc = "idle"
    /\ InvGoto(w, [Idle EXCEPT !.key = k], "exists")
    /\ UNCHANGED <<remote, changes, local, cache, query>>

\* Lines 172-175: the key and the short-circuit.
InvBegin(w, k) ==
    /\ inv[w].pc = "idle"
    /\ IF cache.exists_in_storage[k] # "unset"
       THEN InvLeave(w, [Idle EXCEPT !.key = k], Ok(NoVal), "cached", 0)
       ELSE InvGoto(w, [Idle EXCEPT !.key = k], "exists")
    /\ UNCHANGED <<remote, changes, local, cache, query>>

\* InvExists recording the existence as soon as it is known, before the
\* stats.
InvExistsEager(w) ==
    /\ inv[w].pc = "exists"
    /\ \E fails \in 0..MaxTries :
          LET r == exists(remote[inv[w].key], fails)
              c == [inv[w] EXCEPT !.probes = @ + 1]
          IN  IF r.status # "ok"
              THEN InvLeave(w, c, r, "exists", fails) /\ UNCHANGED cache
              ELSE IF r.value
                   THEN /\ InvGoto(w, [c EXCEPT !.wrote = @ \cup {"exists_in_storage"}],
                                    "stat")
                        /\ cache' = [cache EXCEPT
                                        !.exists_in_storage[inv[w].key] = "true"]
                   ELSE InvGoto(w, c, "write_false") /\ UNCHANGED cache
    /\ UNCHANGED <<remote, changes, local, query>>

\* Line 177: self.exists(), the decorated method.
InvExists(w) ==
    /\ inv[w].pc = "exists"
    /\ \E fails \in 0..MaxTries :
          LET r == exists(remote[inv[w].key], fails)
              c == [inv[w] EXCEPT !.probes = @ + 1]
          IN  IF r.status # "ok" THEN InvLeave(w, c, r, "exists", fails)
              ELSE IF r.value THEN InvGoto(w, c, "stat")
              ELSE InvGoto(w, c, "write_false")
    /\ UNCHANGED <<remote, changes, local, cache, query>>

\* InvWriteFalse also recording a size of nothing.
InvWriteFalseWithSize(w) ==
    /\ inv[w].pc = "write_false"
    /\ cache' = [cache EXCEPT !.exists_in_storage[inv[w].key] = "false",
                              !.size[inv[w].key] = <<"zero", 0>>]
    /\ InvLeave(w, [inv[w] EXCEPT !.wrote = @ \cup {"exists_in_storage"}],
                Ok(NoVal), "not_found", 0)
    /\ UNCHANGED <<remote, changes, local, query>>

\* Lines 178-179.
InvWriteFalse(w) ==
    /\ inv[w].pc = "write_false"
    /\ cache' = [cache EXCEPT !.exists_in_storage[inv[w].key] = "false"]
    /\ InvLeave(w, [inv[w] EXCEPT !.wrote = @ \cup {"exists_in_storage"}],
                Ok(NoVal), "not_found", 0)
    /\ UNCHANGED <<remote, changes, local, query>>

\* Line 180: stat = self._stat()
InvStat(w) ==
    /\ inv[w].pc = "stat"
    /\ \E fault \in BOOLEAN :
          LET r == IF fault THEN Transient ELSE Stat(remote[inv[w].key], TRUE)
              c == [inv[w] EXCEPT !.probes = @ + 1]
          IN  IF r.status # "ok"
              THEN InvLeave(w, c, r, "stat", IF fault THEN 1 ELSE 0)
              ELSE InvGoto(w, [c EXCEPT !.stat = r.value], "is_symlink")
    /\ UNCHANGED <<remote, changes, local, cache, query>>

\* InvIsSymlink without the second stat of line 183: the followed stat
\* is the mtime source for every kind of object.
InvIsSymlinkNoLstat(w) ==
    /\ inv[w].pc = "is_symlink"
    /\ \E fault \in BOOLEAN :
          LET c == [inv[w] EXCEPT !.probes = @ + 1]
          IN  IF fault THEN InvLeave(w, c, Transient, "is_symlink", 1)
              ELSE InvGoto(w, [c EXCEPT !.lstat = c.stat], "stat_to_mtime")
    /\ UNCHANGED <<remote, changes, local, cache, query>>

\* Lines 181 and 185: self.query_path.is_symlink()
InvIsSymlink(w) ==
    /\ inv[w].pc = "is_symlink"
    /\ \E fault \in BOOLEAN :
          LET c == [inv[w] EXCEPT !.probes = @ + 1]
          IN  IF fault THEN InvLeave(w, c, Transient, "is_symlink", 1)
              ELSE IF PathIsSymlink(remote[inv[w].key])
                   THEN InvGoto(w, c, "lstat")
                   ELSE InvGoto(w, [c EXCEPT !.lstat = c.stat], "stat_to_mtime")
    /\ UNCHANGED <<remote, changes, local, cache, query>>

\* Line 183: lstat = self._stat(follow_symlinks=False)
InvLstat(w) ==
    /\ inv[w].pc = "lstat"
    /\ \E fault \in BOOLEAN :
          LET r == IF fault THEN Transient ELSE Stat(remote[inv[w].key], FALSE)
              c == [inv[w] EXCEPT !.probes = @ + 1]
          IN  IF r.status # "ok"
              THEN InvLeave(w, c, r, "lstat", IF fault THEN 1 ELSE 0)
              ELSE InvGoto(w, [c EXCEPT !.lstat = r.value], "stat_to_mtime")
    /\ UNCHANGED <<remote, changes, local, cache, query>>

\* Line 186, right-hand side: Mtime(storage=self._stat_to_mtime(lstat))
InvStatToMtime(w) ==
    /\ inv[w].pc = "stat_to_mtime"
    /\ \E fault \in StatToMtimeFaults :
          LET r == StatToMtime(remote[inv[w].key], inv[w].lstat, fault)
              c == [inv[w] EXCEPT !.probes = @ + 1]
          IN  IF r.status # "ok"
              THEN InvLeave(w, c, r, "stat_to_mtime", IF r = Transient THEN 1 ELSE 0)
              ELSE InvGoto(w, [c EXCEPT !.mt = r.value], "write_mtime")
    /\ UNCHANGED <<remote, changes, local, cache, query>>

\* InvWriteMtime with the assignment of line 188 moved before the other
\* two: the key is in exists_in_storage before its size is.
InvWriteMtimeExistsFirst(w) ==
    /\ inv[w].pc = "write_mtime"
    /\ cache' = [cache EXCEPT !.exists_in_storage[inv[w].key] = "true",
                              !.mtime[inv[w].key] = inv[w].mt]
    /\ InvGoto(w, [inv[w] EXCEPT !.wrote = @ \cup {"exists_in_storage", "mtime"}],
               "write_size")
    /\ UNCHANGED <<remote, changes, local, query>>

\* Line 186, the assignment to cache.mtime[key].
InvWriteMtime(w) ==
    /\ inv[w].pc = "write_mtime"
    /\ cache' = [cache EXCEPT !.mtime[inv[w].key] = inv[w].mt]
    /\ InvGoto(w, [inv[w] EXCEPT !.wrote = @ \cup {"mtime"}], "write_size")
    /\ UNCHANGED <<remote, changes, local, query>>

\* Line 187.
InvWriteSize(w) ==
    /\ inv[w].pc = "write_size"
    /\ cache' = [cache EXCEPT !.size[inv[w].key] = inv[w].stat.st_size]
    /\ InvGoto(w, [inv[w] EXCEPT !.wrote = @ \cup {"size"}], "write_exists")
    /\ UNCHANGED <<remote, changes, local, query>>

\* Line 188.
InvWriteExists(w) ==
    /\ inv[w].pc = "write_exists"
    /\ cache' = [cache EXCEPT !.exists_in_storage[inv[w].key] = "true"]
    /\ InvLeave(w, [inv[w] EXCEPT !.wrote = @ \cup {"exists_in_storage"}],
                Ok(NoVal), "done", 0)
    /\ UNCHANGED <<remote, changes, local, query>>

(***************************************************************************)
(* The decorated methods, called by a caller that is outside inventory()   *)
(***************************************************************************)

\* What the rsync process may print before it fails.
Outputs == {"rsync: link_stat failed", "rsync error: timeout in data send"}

\* rsync's exit status once its transient failures are over: 23 (partial
\* transfer) when the source is not there, else 0.
RsyncExit(o) == IF o.kind = "absent" THEN 23 ELSE 0

\* What rsync -av (archive mode: links are copied as links) leaves at the
\* destination; `resolves` tells whether a copied link's target also
\* exists as seen from the destination.
RsyncCopy(o, resolves) ==
    IF PathIsSymlink(o) /\ ~resolves THEN "link" ELSE "entry"

\* local_path().exists()
LocalExists(l) == l = "entry"

UnchangedByCall == UNCHANGED <<remote, changes, local, cache, inv, query>>

ExistsCall(w, k) ==
    /\ inv[w].pc = "idle"
    /\ \E fails \in 0..MaxTries :
          ret' = Returned("exists", k, exists(remote[k], fails), fails)
    /\ UnchangedByCall

MtimeCall(w, k) ==
    /\ inv[w].pc = "idle"
    /\ \E fails \in 0..MaxTries :
          ret' = Returned("mtime", k, mtime(remote[k], fails), fails)
    /\ UnchangedByCall

SizeCall(w, k) ==
    /\ inv[w].pc = "idle"
    /\ \E fails \in 0..MaxTries :
          ret' = Returned("size", k, size(remote[k], fails), fails)
    /\ UnchangedByCall

\* Lines 226-236.  A source that is not there fails every attempt; the
\* destination is written by the last rsync run when that one exits 0.
RetrieveCall(w, k) ==
    /\ inv[w].pc = "idle"
    /\ \E fails \in 0..MaxTries, output \in Outputs, resolves \in BOOLEAN :
          LET last == RsyncExit(remote[k])
              r == retrieve_object(fails, last, output)
              n == RetryAttempts(1, fails, RetrieveBody(23, output),
                                 RetrieveBody(last, output))
          IN  /\ last # 0 => fails = MaxTries
              /\ ~PathIsSymlink(remote[k]) => resolves
              /\ ret' = [Returned("retrieve_object", k, r, fails)
                            EXCEPT !.output = output]
              /\ local' = IF n > fails /\ last = 0
                           THEN [local EXCEPT ![k] = RsyncCopy(remote[k], resolves)]
                           ELSE local
    /\ UNCHANGED <<remote, changes, cache, inv, query>>

StoreCall(w, k) ==
    /\ inv[w].pc = "idle"
    /\ ret' = Returned("store_object", k, store_object(remote[k]), 0)
    /\ UnchangedByCall

RemoveCall(w, k) ==
    /\ inv[w].pc = "idle"
    /\ ret' = Returned("remove", k, remove(remote[k]), 0)
    /\ UnchangedByCall

ListCall(w, k) ==
    /\ inv[w].pc = "idle"
    /\ ret' = Returned("list_candidate_matches", k,
                       list_candidate_matches(k, remote[k]), MaxTries)
    /\ UnchangedByCall

\* is_valid_query(query): a classmethod, callable at any time.
IsValidQueryCall ==
    /\ \E rejects \in BOOLEAN :
          LET v == is_valid_query(query, rejects)
          IN  ret' = [NoRet EXCEPT !.op = "is_valid_query", !.query = v.query,
                                   !.valid = v.valid, !.msg = v.reason, !.at = v.at]
    /\ UnchangedByCall

(***************************************************************************)
(* The environment                                                         *)
(***************************************************************************)

\* Somebody else rewrites, replaces, creates or removes the object.
RemoteChange(k) ==
    /\ changes < MaxChanges
    /\ \E s \in ShapesOf(k) :
          remote' = [remote EXCEPT ![k] =
                        [kind |-> s.kind, sent |-> s.sent, ver |-> changes + 1]]
    /\ changes' = changes + 1
    /\ inv' = [w \in Workers |->
                 IF inv[w].pc # "idle" /\ inv[w].key = k
                 THEN [inv[w] EXCEPT !.changed = TRUE] ELSE inv[w]]
    /\ ret' = NoRet
    /\ UNCHANGED <<local, cache, query>>

\* The workflow writes the file it is about to store.
LocalWrite(k) ==
    /\ local[k] # "entry"
    /\ local' = [local EXCEPT ![k] = "entry"]
    /\ ret' = NoRet
    /\ UNCHANGED <<remote, changes, cache, inv, query>>

\* The workflow cleans up its local copy.
LocalRemove(k) ==
    /\ local[k] # "absent"
    /\ local' = [local EXCEPT ![k] = "absent"]
    /\ ret' = NoRet
    /\ UNCHANGED <<remote, changes, cache, inv, query>>

(***************************************************************************)
(* Specifications                                                          *)
(***************************************************************************)

Inventory(w) ==
    \/ \E k \in Keys : InvBegin(w, k)
    \/ InvExists(w)
    \/ InvWriteFalse(w)
    \/ InvStat(w)
    \/ InvIsSymlink(w)
    \/ InvLstat(w)
    \/ InvStatToMtime(w)
    \/ InvWriteMtime(w)
    \/ InvWriteSize(w)
    \/ InvWriteExists(w)

Probes(w) ==
    \E k \in Keys :
        \/ ExistsCall(w, k)
        \/ MtimeCall(w, k)
        \/ SizeCall(w, k)

Transfers(w) ==
    \E k \in Keys :
        \/ RetrieveCall(w, k)
        \/ StoreCall(w, k)
        \/ RemoveCall(w, k)
        \/ ListCall(w, k)

\* One caller, one call at a time, probing a storage that others modify.
Next ==
    \/ Inventory("w1")
    \/ Probes("w1")
    \/ \E k \in Keys : RemoteChange(k)

Spec == Init /\ [][Next]_vars

\* One caller, one call at a time, transferring to and from a working
\* directory that the workflow writes and cleans.
NextTransfer ==
    \/ Inventory("w1")
    \/ Probes("w1")
    \/ Transfers("w1")
    \/ \E k \in Keys : LocalWrite(k) \/ LocalRemove(k)

SpecTransfer == Init /\ [][NextTransfer]_vars

\* Several callers running inventory() against the same cache, their
\* probes and cache writes interleaved, on storage nobody modifies.
NextConcurrent == \E w \in Workers : Inventory(w)

SpecConcurrent == Init /\ [][NextConcurrent]_vars

\* Queries being validated.
NextQuery == IsValidQueryCall

SpecQuery == InitQuery /\ [][NextQuery]_vars

\* The same callers while others modify the storage.
NextRacing ==
    \/ \E w \in Workers : Inventory(w)
    \/ \E k \in Keys : RemoteChange(k)

SpecRacing == Init /\ [][NextRacing]_vars

(***************************************************************************)
(* Properties                                                              *)
(***************************************************************************)

\* The other key.
Other(k) == CHOOSE j \in Keys : j # k

\* Caller w starts an inventory() call for key k in this step.
InvStarts(w, k) ==
    /\ inv[w].pc = "idle"
    /\ \/ inv'[w].pc # "idle" /\ inv'[w].key = k
       \/ ret'.op = "inventory" /\ ret'.key = k

\* C1: when rsync exits nonzero on every attempt, retrieve_object raises
\* the typed WorkflowError and its message is the captured output of the
\* failed command.
C1_TransferErrorCarriesOutput ==
    (ret.op = "retrieve_object" /\ ret.status = "error")
        => (ret.exc = "WorkflowError" /\ ret.msg = ret.output)

\* C2: an inventory() call that starts with its key already in
\* exists_in_storage returns at once: it makes no probe and leaves
\* exists_in_storage, mtime and size as they were.
C2_InventoryIdempotent ==
    [][\A k \in Keys :
          (InvStarts("w1", k) /\ cache.exists_in_storage[k] # "unset")
              => /\ inv'["w1"].pc = "idle"
                 /\ ret'.op = "inventory" /\ ret'.status = "ok"
                 /\ ret'.probes = 0 /\ ret'.wrote = {}
                 /\ cache' = cache]_vars

\* C2 witness: a second inventory() call for a key the first one has
\* populated has returned from the short-circuit.
C2_Witness ==
    /\ ret.op = "inventory" /\ ret.at = "cached"
    /\ cache.exists_in_storage[ret.key] = "true"
    /\ cache.mtime[ret.key] # NoVal

\* C3: for an object that is not in storage (and does not change during
\* the call), inventory() on a cache without the key sets
\* exists_in_storage[key] to false and gives mtime and size no entry for
\* the key; no step of inventory() touches another key's entries.
C3_NotExistingInventory ==
    /\ [](\A k \in Keys :
            (/\ ret.op = "inventory" /\ ret.key = k /\ ret.at # "cached"
             /\ ret.status = "ok" /\ ~ret.changed /\ ~PathExists(remote[k]))
                => /\ cache.exists_in_storage[k] = "false"
                   /\ cache.mtime[k] = NoVal
                   /\ cache.size[k] = NoVal
                   /\ ret.wrote = {"exists_in_storage"})
    /\ [][\A k \in Keys :
            (\/ cache'.exists_in_storage[k] # cache.exists_in_storage[k]
             \/ cache'.mtime[k] # cache.mtime[k]
             \/ cache'.size[k] # cache.size[k])
                => (inv["w1"].pc # "idle" /\ inv["w1"].key = k)]_vars

\* C3 witness: inventory() has just recorded a dangling link as not
\* existing while the other key holds a complete entry.
C3_Witness ==
    /\ ret.op = "inventory" /\ ret.at = "not_found" /\ ~ret.changed
    /\ remote[ret.key].kind = "dangling"
    /\ cache.exists_in_storage[ret.key] = "false"
    /\ cache.exists_in_storage[Other(ret.key)] = "true"

\* C4: when a probe of inventory() fails, the call ends with that error
\* and has written none of exists_in_storage[key], mtime[key], size[key];
\* once a call has written anything, no probe is left to fail.
C4_InventoryAllOrNothing ==
    /\ (ret.op = "inventory" /\ ret.status = "error")
          => /\ ret.wrote = {}
             /\ cache.exists_in_storage[ret.key] = "unset"
             /\ cache.mtime[ret.key] = NoVal
             /\ cache.size[ret.key] = NoVal
    /\ \A w \in Workers :
          inv[w].wrote # {} => inv[w].pc \in {"write_size", "write_exists"}

\* C4 witness: the object was removed between the successful existence
\* check and the stat, and inventory() has ended with the stat's error.
C4_Witness ==
    /\ ret.op = "inventory" /\ ret.status = "error"
    /\ ret.at = "stat" /\ ret.exc = "FileNotFoundError" /\ ret.changed
    /\ remote[ret.key].kind = "absent"

\* C5: a probe of inventory() that fails fewer times than the retry bound
\* is retried, and inventory() still populates the cache.
C5_InventoryProbesRetried ==
    (ret.op = "inventory" /\ ret.fails >= 1 /\ ret.fails < MaxTries)
        => (ret.status = "ok" /\ cache.exists_in_storage[ret.key] # "unset")

\* C5 witness of the failing case: one transient failure of the stat of
\* line 180 on an object that is there.
C5_FailingCase ==
    /\ ret.op = "inventory" /\ ret.at = "stat" /\ ret.fails = 1
    /\ ret.exc = "OSError" /\ ~ret.changed
    /\ Stat(remote[ret.key], TRUE).status = "ok"

\* The methods under @retry_decorator.
DecoratedOps ==
    {"exists", "mtime", "size", "retrieve_object", "store_object", "remove",
     "list_candidate_matches"}

\* What one more attempt of the method gives now that the failures are over.
Undecorated(op, k) ==
    CASE op = "exists" -> ExistsBody(remote[k])
      [] op = "mtime" -> MtimeBody(remote[k])
      [] op = "size" -> SizeBody(remote[k])
      [] op = "retrieve_object" -> RetrieveBody(RsyncExit(remote[k]), ret.output)
      [] op = "store_object" -> StoreBody(remote[k])
      [] op = "remove" -> RemoveBody(remote[k])
      [] op = "list_candidate_matches" -> ListBody(k, remote[k])

\* C6: a decorated method whose body fails on fewer attempts than MaxTries
\* and then succeeds returns the successful result; no error is seen.
C6_RetrySucceeds ==
    (/\ ret.op \in DecoratedOps
     /\ ret.fails < MaxTries
     /\ Undecorated(ret.op, ret.key).status = "ok")
        => (ret.status = "ok" /\ ret.value = Undecorated(ret.op, ret.key).value)

\* C6 witness: mtime() has returned a value after failing on all attempts
\* but the last.
C6_Witness ==
    /\ ret.op = "mtime" /\ ret.fails = MaxTries - 1 /\ ret.fails >= 1
    /\ ret.status = "ok" /\ ret.value # NoVal

\* C7: after store_object() has returned for an object whose local path
\* exists, the object exists in storage; after remove() has returned, it
\* does not.
C7_StoreRemoveTakeEffect ==
    /\ (ret.op = "store_object" /\ ret.status = "ok" /\ LocalExists(local[ret.key]))
          => PathExists(remote[ret.key])
    /\ (ret.op = "remove" /\ ret.status = "ok") => ~PathExists(remote[ret.key])

\* C8: list_candidate_matches() returns the path itself, as one string, when
\* the prefix is a single file, and the entries beneath it when the prefix
\* is a directory.
C8_ListCandidates ==
    \A k \in Keys :
        (ret.op = "list_candidate_matches" /\ ret.key = k /\ PathExists(remote[k]))
            => /\ ret.status = "ok"
               /\ ret.value = IF PathIsDir(remote[k]) THEN Entries(k, remote[k])
                               ELSE {[type |-> "str", path |-> <<k>>]}

OwnMtime(o) ==
    IF PathIsSymlink(o) THEN <<"link", o.ver>> ELSE <<"target", o.ver>>

\* C10 as stated: mtime() returns the sentinel entry's own mtime whenever
\* query_path is a directory with a .snakemake_timestamp entry of any
\* kind, and query_path's own mtime otherwise.
C10_MtimeSentinelNotFollowed ==
    \A k \in Keys :
        (ret.op = "mtime" /\ ret.key = k /\ ret.status = "ok")
            => ret.value = IF PathIsDir(remote[k]) /\ remote[k].sent # "none"
                           THEN <<"sentinel", remote[k].ver>>
                           ELSE OwnMtime(remote[k])

\* C10 amended: mtime() returns the sentinel entry's own mtime whenever
\* query_path is a directory with a .snakemake_timestamp entry that
\* exists with symlinks followed (a file, or a link that resolves), and
\* query_path's own mtime otherwise, a dangling sentinel included.
C10_MtimeSentinelFollowed ==
    \A k \in Keys :
        (ret.op = "mtime" /\ ret.key = k /\ ret.status = "ok")
            => ret.value = IF /\ remote[k].kind \in {"dir", "linkdir"}
                              /\ remote[k].sent \in {"file", "link"}
                           THEN <<"sentinel", remote[k].ver>>
                           ELSE OwnMtime(remote[k])

\* C10 witness: mtime() of a directory whose sentinel is a dangling link
\* has returned the directory's mtime.
C10_Witness ==
    /\ ret.op = "mtime" /\ ret.status = "ok"
    /\ remote[ret.key].kind = "dir" /\ remote[ret.key].sent = "dangling"
    /\ ret.value = <<"target", remote[ret.key].ver>>

\* C14: after an inventory() call that ran to line 188 on a cache without
\* the key, with no change of the stored object during the call, the
\* cached mtime is what mtime() returns and the cached size is what size()
\* returns, for every kind of existing object; for a symlink the cached
\* mtime is that of the not-followed stat (unless the directory sentinel
\* rule replaces it) and the cached size is that of the followed stat.
C14_CacheAgreesWithProbes ==
    \A k \in Keys :
        (ret.op = "inventory" /\ ret.key = k /\ ret.at = "done" /\ ~ret.changed)
            => /\ mtime(remote[k], 0).status = "ok"
               /\ size(remote[k], 0).status = "ok"
               /\ cache.mtime[k] = mtime(remote[k], 0).value
               /\ cache.size[k] = size(remote[k], 0).value
               /\ PathIsSymlink(remote[k])
                    => /\ cache.size[k] = <<"tsize", remote[k].ver>>
                       /\ cache.mtime[k] = IF TimestampExists(remote[k])
                                           THEN <<"sentinel", remote[k].ver>>
                                           ELSE <<"link", remote[k].ver>>

\* inventory() has cached a symlink to a file: the link's own mtime and
\* the target's size.
C14_Witness ==
    /\ ret.op = "inventory" /\ ret.at = "done" /\ ~ret.changed
    /\ remote[ret.key].kind = "linkfile"
    /\ cache.mtime[ret.key] = <<"link", remote[ret.key].ver>>
    /\ cache.size[ret.key] = <<"tsize", remote[ret.key].ver>>

\* The cache entries of one key.
Entry(k) ==
    [exists_in_storage |-> cache.exists_in_storage[k],
     mtime |-> cache.mtime[k],
     size |-> cache.size[k]]

\* What one inventory() call, running alone and without a failure, leaves
\* in an empty cache for the stored object o.
SequentialEntry(o) ==
    IF PathExists(o)
    THEN [exists_in_storage |-> "true",
          mtime |-> IF TimestampExists(o) THEN <<"sentinel", o.ver>> ELSE OwnMtime(o),
          size |-> <<"tsize", o.ver>>]
    ELSE [exists_in_storage |-> "false", mtime |-> NoVal, size |-> NoVal]

\* C11: when callers run inventory() concurrently on storage that does not
\* change, with their probes and cache writes interleaved in any order,
\* every cache entry that is written is the one a single sequential call
\* writes, a key that is in exists_in_storage has exactly the entries of a
\* single sequential call, a call that returns normally leaves its key
\* there, and a step changes the entries of a key only on behalf of a
\* call for that key.
C11_ConcurrentInventory ==
    /\ [](\A k \in Keys :
            /\ cache.mtime[k] \in {NoVal, SequentialEntry(remote[k]).mtime}
            /\ cache.size[k] \in {NoVal, SequentialEntry(remote[k]).size}
            /\ cache.exists_in_storage[k] # "unset"
                 => Entry(k) = SequentialEntry(remote[k])
            /\ (ret.op = "inventory" /\ ret.key = k /\ ret.status = "ok")
                 => cache.exists_in_storage[k] # "unset")
    /\ [][\A k \in Keys :
            Entry(k)' # Entry(k)
                => \E w \in Workers : inv[w].pc # "idle" /\ inv[w].key = k]_vars

\* Two calls for the same key have interleaved their writes: one has
\* returned from line 188 after writing all three entries while the other
\* has written mtime and size and is about to write exists_in_storage.
C11_Witness ==
    /\ ret.op = "inventory" /\ ret.at = "done" /\ ret.raced
    /\ ret.wrote = {"mtime", "size", "exists_in_storage"}
    /\ \E w \in Workers :
          /\ inv[w].pc = "write_exists" /\ inv[w].key = ret.key
          /\ inv[w].wrote = {"mtime", "size"}
    /\ remote[ret.key].kind = "linkdir"

\* C13: in every reachable state of the shared cache, a key whose
\* exists_in_storage entry is true has its mtime and size entries set, and
\* a key whose exists_in_storage entry is false has neither.
C13_NoPartialEntry ==
    \A k \in Keys :
        /\ cache.exists_in_storage[k] = "true"
             => (cache.mtime[k] # NoVal /\ cache.size[k] # NoVal)
        /\ cache.exists_in_storage[k] = "false"
             => (cache.mtime[k] = NoVal /\ cache.size[k] = NoVal)

\* C15: whenever exists_in_storage[key] is true, the cached mtime and the
\* cached size were both read from one single state of the stored object,
\* also when the object changes while inventory() calls are running.
C15_SingleObservation ==
    \A k \in Keys :
        cache.exists_in_storage[k] = "true"
            => cache.mtime[k][2] = cache.size[k][2]

\* The query text begins with the scheme rsync, in any letter case,
\* followed by ":".
HasSchemeRsync(q) ==
    /\ Len(q) >= 6
    /\ [j \in 1..5 |-> Lower(q[j])] = <<"r", "s", "y", "n", "c">>
    /\ q[6] = ":"

HasBracket(q) == Contains(q, "[") \/ Contains(q, "]")

\* C12 as stated: is_valid_query reports valid exactly when the query
\* parses as a URL whose scheme is rsync; every query with another scheme
\* or none is reported invalid with the reason "scheme must be rsync"; a
\* query with scheme rsync and a wildcard placeholder is reported valid.
C12_ValidIffSchemeRsync ==
    ret.op = "is_valid_query"
        => /\ ret.valid <=> (HasSchemeRsync(ret.query) /\ ret.at # "except")
           /\ ~HasSchemeRsync(ret.query)
                => (~ret.valid /\ ret.msg = "scheme must be rsync")
           /\ (/\ HasSchemeRsync(ret.query)
               /\ Contains(ret.query, "{sample}")
               /\ ~HasBracket(ret.query)) => ret.valid

\* C12, amended: is_valid_query reports valid exactly when the query
\* parses as a URL whose scheme is rsync; a query that parses with another
\* scheme or none is reported invalid with the reason "scheme must be
\* rsync"; a query the URL parser rejects, which takes a bracket in it,
\* is reported invalid whatever its scheme, with a reason that carries the
\* parser's message; a query with scheme rsync and a wildcard placeholder
\* (and no bracket) is reported valid; the call changes nothing.
C12_ValidIffParsedSchemeRsync ==
    /\ [](ret.op = "is_valid_query"
            => /\ ret.query = query
               /\ ret.valid <=> (HasSchemeRsync(ret.query) /\ ret.at # "except")
               /\ (~HasSchemeRsync(ret.query) /\ ret.at # "except")
                    => (~ret.valid /\ ret.msg = "scheme must be rsync")
               /\ ret.at = "except"
                    => /\ ~ret.valid
                       /\ HasBracket(ret.query)
                       /\ ret.msg \in
                            {"cannot be parsed as URL (" \o m \o ")" :
                               m \in {"Invalid IPv6 URL",
                                      "does not appear to be an IPv4 or IPv6 address"}}
               /\ (HasSchemeRsync(ret.query) /\ ~HasBracket(ret.query)) => ret.valid)
    /\ [][ret'.op = "is_valid_query"
            => UNCHANGED <<remote, changes, local, cache, inv, query>>]_vars

\* The query rsync://h/{sample} has been reported valid.
C12_Witness ==
    /\ ret.op = "is_valid_query" /\ ret.valid
    /\ ret.query = <<"r", "s", "y", "n", "c", ":", "/", "/", "h", "/", "{sample}">>

====
